---- MODULE Spec2Model ----
(***************************************************************************)
(* The cough-classification pipeline of app/inference.py as a state        *)
(* machine: duration check, noise suppression, cough-segment extraction,   *)
(* mel featurisation with min-max normalisation, forward pass, softmax and *)
(* arg-max.                                                                *)
(*                                                                         *)
(* Units.  Sample amplitudes are integers in hundredths (0.05 is 5).       *)
(* Mel power cells are held as their level 10*log10(power) in dB, the      *)
(* power 0.0 being the level ZeroPower.  Normalised cells and norm_range   *)
(* are fixed-point numbers in units of 1/Scale, probabilities in units of  *)
(* 1/ProbScale.  NaN is the floating-point not-a-number.  Indices are      *)
(* Python's, 0-based.                                                      *)
(***************************************************************************)
EXTENDS Integers, Sequences, FiniteSets, TLC

\* ---------------------------------------------------------------- bounds
MaxLen == 4
MaxSr == 3
MelCells == 3

\* ------------------------------------------------------ program constants
DefaultSr == 22050
AmplitudeThreshold == 5
AminDb == -100
TopDb == 80
Scale == 10 ^ 3
ProbScale == 10 ^ 6
NaN == -(2 ^ 30)
ZeroPower == -(2 ^ 20)
None == 0 - 1

class_names == <<"neither", "viral", "bacterial">>
DefaultNormRange == <<0, Scale>>

\* ------------------------------------------------------------ input sets
Amps == {-30, 0, 5}
SampleRates == (1..MaxSr) \cup {DefaultSr}
PowerLevels == {ZeroPower, -120, -30, 0}
LogitValues == {-2, 0, 1}
NormRanges == {<<0, Scale>>, <<-Scale, Scale>>, <<Scale \div 4, Scale \div 2>>,
               <<0, 0>>, <<Scale, 0>>}

SeqsUpTo(S, lo, hi) == UNION {[1..k -> S] : k \in lo..hi}

\* --------------------------------------------------------------- helpers
Max(a, b) == IF a >= b THEN a ELSE b
Min(a, b) == IF a <= b THEN a ELSE b
Abs(a) == IF a < 0 THEN -a ELSE a

SeqMax(s) == CHOOSE m \in {s[i] : i \in DOMAIN s} : \A i \in DOMAIN s : s[i] <= m
SeqMin(s) == CHOOSE m \in {s[i] : i \in DOMAIN s} : \A i \in DOMAIN s : s[i] >= m

RECURSIVE SeqSum(_)
SeqSum(s) == IF s = <<>> THEN 0 ELSE Head(s) + SeqSum(Tail(s))

\* Python's s[a:b] on a sequence, negative bounds counted from the end.
PySlice(s, a, b) ==
    LET n == Len(s)
        lo == IF a < 0 THEN Max(0, n + a) ELSE Min(a, n)
        hi == IF b < 0 THEN Max(0, n + b) ELSE Min(b, n)
    IN  SubSeq(s, lo + 1, hi)

\* ------------------------------------------------- main: duration check
\* librosa.get_duration(y=y, sr=sr) > 1, the duration being len(y) / sr.
NeedsExtractionAtLeast(sig, rate) == Len(sig) >= rate
NeedsExtraction(sig, rate) == Len(sig) > rate

\* -------------------------------------- reduce_noise_and_extract_cough
\* np.where(np.abs(y_denoised) > amplitude_threshold)[0], ascending.
RECURSIVE IndicesFrom(_, _)
IndicesFrom(s, i) ==
    IF i >= Len(s) THEN <<>>
    ELSE IF Abs(s[i + 1]) > AmplitudeThreshold
         THEN <<i>> \o IndicesFrom(s, i + 1)
         ELSE IndicesFrom(s, i + 1)

CoughIndices(s) == IndicesFrom(s, 0)

\* start_idx = max(0, cough_indices[0] - sr // 2)
StartIdxFullSecond(first, rate) == Max(0, first - rate)
StartIdxCeil(first, rate) == Max(0, first - (rate + 1) \div 2)
StartIdx(first, rate) == Max(0, first - rate \div 2)

\* end_idx = min(len(y_denoised), start_idx + sr)
EndIdxNoTruncate(n, start, rate) == start + rate + 1
EndIdx(n, start, rate) == Min(n, start + rate)

\* ------------------------------------------------------------ preprocess
\* librosa.power_to_db(S, ref=np.max): 10*log10(max(amin, S)) minus
\* 10*log10(max(amin, max(S))), floored at the maximum minus top_db.
PowerToDb(S) ==
    LET ref == SeqMax(S)
        logS == [i \in DOMAIN S |-> Max(AminDb, S[i]) - Max(AminDb, ref)]
        top == SeqMax(logS)
    IN  [i \in DOMAIN S |-> Max(logS[i], top - TopDb)]

\* IEEE division of fixed-point numbers: 0/0 is NaN.
FDiv(a, b) == IF b = 0 THEN NaN ELSE (a * Scale) \div b
FMulAdd(x, k, c) == IF x = NaN THEN NaN ELSE (x * k) \div Scale + c

\* (db - db.min()) / (db.max() - db.min()), then * (mel_max - mel_min) + mel_min
NormalizeNoOffset(db, range) ==
    LET lo == SeqMin(db)
        hi == SeqMax(db)
    IN  [i \in DOMAIN db |->
            FMulAdd(FDiv(db[i] - lo, hi - lo), range[2] - range[1], 0)]
Normalize(db, range) ==
    LET lo == SeqMin(db)
        hi == SeqMax(db)
    IN  [i \in DOMAIN db |->
            FMulAdd(FDiv(db[i] - lo, hi - lo), range[2] - range[1], range[1])]

HasNaN(t) == \E i \in DOMAIN t : t[i] = NaN

\* The mel power spectrograms librosa.feature.melspectrogram can give for a
\* signal: the transform of silence is exactly zero, anything else is open.
MelSpectrograms(sig) ==
    IF \A i \in DOMAIN sig : sig[i] = 0
    THEN {[i \in 1..MelCells |-> ZeroPower]}
    ELSE [1..MelCells -> PowerLevels]

\* --------------------------------------------------------- predict_audio
\* The frozen network: one logit per class; a NaN anywhere in the input
\* reaches every logit.
ModelOutputs(t) ==
    IF HasNaN(t) THEN {[i \in DOMAIN class_names |-> NaN]}
    ELSE [DOMAIN class_names -> LogitValues]

\* exp(d) for the integers d <= 0 softmax meets, in thousandths.
Exp(d) ==
    CASE d = 0 -> 1000
      [] d = -1 -> 368
      [] d = -2 -> 135
      [] d = -3 -> 50
      [] OTHER -> 0

\* torch.softmax(outputs, dim=1): exp(x - max) / sum(exp(x - max)).
SoftmaxUnnormalized(x) ==
    IF HasNaN(x) THEN [i \in DOMAIN x |-> NaN]
    ELSE [i \in DOMAIN x |-> Exp(x[i] - SeqMax(x))]
Softmax(x) ==
    IF HasNaN(x) THEN [i \in DOMAIN x |-> NaN]
    ELSE LET e == [i \in DOMAIN x |-> Exp(x[i] - SeqMax(x))]
         IN  [i \in DOMAIN x |-> (e[i] * ProbScale) \div SeqSum(e)]

\* torch.argmax(probs): the first NaN if there is one, otherwise the first
\* index holding the maximum; 0-based.
ArgmaxLast(p) ==
    IF HasNaN(p) THEN (CHOOSE i \in DOMAIN p : p[i] = NaN /\ \A j \in DOMAIN p : p[j] = NaN => j <= i) - 1
    ELSE (CHOOSE i \in DOMAIN p : p[i] = SeqMax(p) /\ \A j \in DOMAIN p : p[j] = SeqMax(p) => j <= i) - 1
Argmax(p) ==
    IF HasNaN(p) THEN (CHOOSE i \in DOMAIN p : p[i] = NaN /\ \A j \in DOMAIN p : p[j] = NaN => i <= j) - 1
    ELSE (CHOOSE i \in DOMAIN p : p[i] = SeqMax(p) /\ \A j \in DOMAIN p : p[j] = SeqMax(p) => i <= j) - 1

\* {class_names[i]: probs[i].item() for i in range(len(class_names))}
ProbabilityMap(p) ==
    [c \in {class_names[i] : i \in DOMAIN class_names} |->
        p[CHOOSE i \in DOMAIN class_names : class_names[i] = c]]

\* ----------------------------------------------------------------- state
VARIABLES pc, y, sr, y_denoised, cough_indices, start_idx, end_idx, cough,
          audio, feat_sr, norm_range, mel_spec, mel_spec_db, mel_tensor,
          outputs, probs, predicted_class_idx, predicted_class_name,
          probabilities, error, stages

vars == <<pc, y, sr, y_denoised, cough_indices, start_idx, end_idx, cough,
          audio, feat_sr, norm_range, mel_spec, mel_spec_db, mel_tensor,
          outputs, probs, predicted_class_idx, predicted_class_name,
          probabilities, error, stages>>

mainVars == <<y, sr>>
segVars == <<y_denoised, cough_indices, start_idx, end_idx>>
preVars == <<audio, feat_sr, norm_range, mel_spec, mel_spec_db, mel_tensor>>
clsVars == <<outputs, probs, predicted_class_idx, predicted_class_name, probabilities>>

NoLocals ==
    /\ y_denoised = <<>> /\ cough_indices = <<>>
    /\ start_idx = None /\ end_idx = None
    /\ mel_spec = <<>> /\ mel_spec_db = <<>> /\ mel_tensor = <<>>
    /\ outputs = <<>> /\ probs = <<>>
    /\ predicted_class_idx = None /\ predicted_class_name = ""
    /\ probabilities = <<>>
    /\ error = "none" /\ stages = <<>>

\* After y, sr = librosa.load(..., sr=None) / sf.read(...): the native rate.
Init ==
    /\ pc = "main"
    /\ sr \in SampleRates
    /\ y \in SeqsUpTo(Amps, 1, MaxLen)
    /\ cough = <<>> /\ audio = <<>>
    /\ feat_sr = None /\ norm_range = DefaultNormRange
    /\ NoLocals

\* if librosa.get_duration(y=y, sr=sr) > 1: ... else: cough = y
CheckDuration ==
    /\ pc = "main"
    /\ IF NeedsExtraction(y, sr)
       THEN /\ pc' = "reduce_noise"
            /\ UNCHANGED cough
       ELSE /\ pc' = "predict_audio"
            /\ cough' = y
    /\ UNCHANGED <<mainVars, segVars, preVars, clsVars, error, stages>>

\* Spectral gating and inverse STFT: the denoised waveform is whatever the
\* transforms give, never longer than the input.
ReduceNoise ==
    /\ pc = "reduce_noise"
    /\ y_denoised' \in SeqsUpTo(Amps, 0, Len(y))
    /\ stages' = Append(stages, "NoiseSuppressor")
    /\ pc' = "extract_cough"
    /\ UNCHANGED <<mainVars, cough_indices, start_idx, end_idx, cough,
                   preVars, clsVars, error>>

\* The amplitude detection, the raise and the 1-second slice.
ExtractCoughDefaultSegment ==
    /\ pc = "extract_cough"
    /\ cough_indices' = CoughIndices(y_denoised)
    /\ stages' = Append(stages, "CoughSegmenter")
    /\ LET first == IF cough_indices' = <<>> THEN 0 ELSE cough_indices'[1]
           start == StartIdx(first, sr)
           end == EndIdx(Len(y_denoised), start, sr)
       IN  /\ start_idx' = start
           /\ end_idx' = end
           /\ cough' = PySlice(y_denoised, start, end)
           /\ pc' = "predict_audio"
           /\ UNCHANGED error
    /\ UNCHANGED <<mainVars, y_denoised, preVars, clsVars>>
ExtractCough ==
    /\ pc = "extract_cough"
    /\ cough_indices' = CoughIndices(y_denoised)
    /\ stages' = Append(stages, "CoughSegmenter")
    /\ IF Len(cough_indices') = 0
       THEN /\ error' = "ValueError"
            /\ pc' = "failed"
            /\ UNCHANGED <<start_idx, end_idx, cough>>
       ELSE LET start == StartIdx(cough_indices'[1], sr)
                end == EndIdx(Len(y_denoised), start, sr)
            IN  /\ start_idx' = start
                /\ end_idx' = end
                /\ cough' = PySlice(y_denoised, start, end)
                /\ pc' = "predict_audio"
                /\ UNCHANGED error
    /\ UNCHANGED <<mainVars, y_denoised, preVars, clsVars>>

\* pred, probs = predict_audio(model, cough, class_names, device): sr,
\* n_mels, hop_length and duration take their defaults, and preprocess is
\* called with them and the default norm_range.  The locals of
\* reduce_noise_and_extract_cough are gone.
PredictAudioNativeSr ==
    /\ pc = "predict_audio"
    /\ audio' = cough
    /\ feat_sr' = sr
    /\ norm_range' = DefaultNormRange
    /\ y_denoised' = <<>> /\ cough_indices' = <<>>
    /\ start_idx' = None /\ end_idx' = None
    /\ pc' = "preprocess"
    /\ UNCHANGED <<mainVars, cough, mel_spec, mel_spec_db, mel_tensor,
                   clsVars, error, stages>>
PredictAudio ==
    /\ pc = "predict_audio"
    /\ audio' = cough
    /\ feat_sr' = DefaultSr
    /\ norm_range' = DefaultNormRange
    /\ y_denoised' = <<>> /\ cough_indices' = <<>>
    /\ start_idx' = None /\ end_idx' = None
    /\ pc' = "preprocess"
    /\ UNCHANGED <<mainVars, cough, mel_spec, mel_spec_db, mel_tensor,
                   clsVars, error, stages>>

\* preprocess: mel spectrogram, decibels, min-max normalisation, tensor.
\* Only the tensor is returned; no waveform (y, cough, audio) is read again
\* on any path, and the state stops carrying them.
Preprocess ==
    /\ pc = "preprocess"
    /\ mel_spec' \in MelSpectrograms(audio)
    /\ mel_spec_db' = PowerToDb(mel_spec')
    /\ mel_tensor' = Normalize(mel_spec_db', norm_range)
    /\ stages' = Append(stages, "MelFeaturizer")
    /\ y' = <<>> /\ cough' = <<>> /\ audio' = <<>>
    /\ pc' = "forward"
    /\ UNCHANGED <<sr, segVars, feat_sr, norm_range, clsVars, error>>

\* Forward pass, softmax, arg-max, probability map.
Forward ==
    /\ pc = "forward"
    /\ outputs' \in ModelOutputs(mel_tensor)
    /\ probs' = Softmax(outputs')
    /\ predicted_class_idx' = Argmax(probs')
    /\ predicted_class_name' = class_names[predicted_class_idx' + 1]
    /\ probabilities' = ProbabilityMap(probs')
    /\ stages' = Append(stages, "ClassificationEngine")
    /\ pc' = "done"
    /\ UNCHANGED <<mainVars, segVars, cough, preVars, error>>

Next ==
    \/ CheckDuration
    \/ ReduceNoise
    \/ ExtractCough
    \/ PredictAudio
    \/ Preprocess
    \/ Forward

Spec == Init /\ [][Next]_vars

\* preprocess called on its own, with any signal, rate and norm_range.
InitPreprocess ==
    /\ pc = "preprocess"
    /\ audio \in SeqsUpTo(Amps, 1, MaxLen)
    /\ feat_sr \in SampleRates
    /\ norm_range \in NormRanges
    /\ y = <<>> /\ sr = feat_sr /\ cough = <<>>
    /\ NoLocals

NextPreprocess == Preprocess

SpecPreprocess == InitPreprocess /\ [][NextPreprocess]_vars

\* ------------------------------------------------------------ properties
NS == "NoiseSuppressor"
CS == "CoughSegmenter"
MF == "MelFeaturizer"
CE == "ClassificationEngine"

Active(v) == Abs(v) > AmplitudeThreshold
Silent(s) == \A i \in DOMAIN s : ~Active(s[i])
\* 0-based index of the first active sample of a signal that has one.
FirstActive(s) ==
    (CHOOSE i \in DOMAIN s : Active(s[i]) /\ \A j \in 1..(i - 1) : ~Active(s[j])) - 1
\* reduce_noise_and_extract_cough has returned a segment to main.
Extracted == pc = "predict_audio" /\ stages = <<NS, CS>>
Degenerate(db) == SeqMax(db) = SeqMin(db)
Featurized == pc \in {"forward", "done"}

\* C1: noise suppression and then segmentation run before featurisation
\* exactly when the waveform lasts strictly more than 1 second (len(y) > sr);
\* otherwise, a 1-second waveform included, both are skipped and the raw
\* waveform itself is what preprocess receives.
C1_StagesIffLongerThanOneSecond ==
    /\ pc \in {"reduce_noise", "extract_cough", "failed"} => Len(y) > sr
    /\ pc = "extract_cough" => stages = <<NS>>
    /\ pc = "predict_audio" =>
          IF Len(y) > sr THEN stages = <<NS, CS>>
          ELSE stages = <<>> /\ cough = y
    /\ pc = "preprocess" =>
          IF Len(y) > sr THEN stages = <<NS, CS>> /\ audio = cough
          ELSE stages = <<>> /\ audio = y
    /\ pc = "forward" => stages \in {<<NS, CS, MF>>, <<MF>>}
    /\ pc = "done" => stages \in {<<NS, CS, MF, CE>>, <<MF, CE>>}

C1_Witness ==
    pc = "preprocess" /\ Len(y) = sr /\ audio = y /\ stages = <<>>

\* C2: when no denoised sample is strictly above the threshold the segmenter
\* raises, nothing is retried or substituted, and neither featurisation nor
\* classification happens: the run ends there without a result.
C2_NoActivityIsTerminal ==
    /\ (pc \in {"predict_audio", "failed"} /\ stages = <<NS, CS>>) =>
          (Silent(y_denoised) <=> pc = "failed")
    /\ (error # "none") <=> (pc = "failed")
    /\ pc = "failed" =>
          /\ error = "ValueError"
          /\ stages = <<NS, CS>>
          /\ cough = <<>> /\ audio = <<>> /\ start_idx = None /\ end_idx = None
          /\ mel_tensor = <<>> /\ probs = <<>> /\ probabilities = <<>>
          /\ predicted_class_name = ""
          /\ ~ENABLED Next

C2_Witness ==
    /\ pc = "failed"
    /\ \E i \in DOMAIN y_denoised : y_denoised[i] = AmplitudeThreshold

\* C3: a constant decibel spectrogram is never divided by max - min = 0;
\* preprocess returns the midpoint of norm_range in every cell (or fails),
\* and no cell of the tensor is NaN.
C3_DegenerateIsMidpoint ==
    (Featurized /\ Degenerate(mel_spec_db)) =>
        \A i \in DOMAIN mel_tensor :
            /\ mel_tensor[i] # NaN
            /\ mel_tensor[i] = (norm_range[1] + norm_range[2]) \div 2

\* C4: the sample rate preprocess works with is the native rate the audio
\* was loaded with, whatever that rate is.
C4_SampleRatePassedThrough ==
    pc \in {"preprocess", "forward", "done"} => feat_sr = sr

\* C5 (as claimed): the segment is y_denoised[start:end] with
\* start = max(0, first - 0.5 * sr) and end = min(len, start + sr); when
\* first <= 0.5 * sr and the signal has at least sr samples it starts at 0
\* and has exactly sr samples.
C5_SegmentHalfRatePreRoll ==
    Extracted =>
        LET first == FirstActive(y_denoised) IN
        /\ cough_indices[1] = first
        /\ 2 * start_idx = Max(0, 2 * first - sr)
        /\ end_idx = Min(Len(y_denoised), start_idx + sr)
        /\ cough = SubSeq(y_denoised, start_idx + 1, end_idx)
        /\ (2 * first <= sr /\ Len(y_denoised) >= sr) =>
              (start_idx = 0 /\ Len(cough) = sr)

\* C5 (amended): the same with the pre-roll a whole number of samples,
\* start = max(0, first - floor(sr / 2)).
C5_SegmentFloorPreRoll ==
    Extracted =>
        LET first == FirstActive(y_denoised) IN
        /\ cough_indices[1] = first
        /\ start_idx = Max(0, first - sr \div 2)
        /\ end_idx = Min(Len(y_denoised), start_idx + sr)
        /\ cough = SubSeq(y_denoised, start_idx + 1, end_idx)
        /\ (2 * first <= sr /\ Len(y_denoised) >= sr) =>
              (start_idx = 0 /\ Len(cough) = sr)

C5_Witness ==
    /\ Extracted
    /\ sr % 2 = 1 /\ start_idx > 0
    /\ start_idx = FirstActive(y_denoised) - sr \div 2

\* C6: an extracted segment starts at an index >= 0 and has at most sr
\* samples (1 second), fewer only when the end of the signal cuts it.
C6_SegmentBounds ==
    Extracted =>
        /\ start_idx >= 0
        /\ Len(cough) <= sr
        /\ Len(cough) < sr => end_idx = Len(y_denoised)

C6_Witness ==
    Extracted /\ start_idx > 0 /\ Len(cough) < sr /\ end_idx = Len(y_denoised)

\* C7: the predicted label is class_names[i] for i the index of the largest
\* probability, the lowest such index when several are largest (comparisons
\* are IEEE's: nothing is above or equal to a NaN).
C7_ArgmaxLowestIndex ==
    pc = "done" =>
        LET i == predicted_class_idx + 1 IN
        /\ i \in DOMAIN class_names
        /\ predicted_class_name = class_names[i]
        /\ \A j \in DOMAIN probs :
              (probs[j] # NaN /\ probs[i] # NaN) =>
                  /\ probs[j] <= probs[i]
                  /\ j < i => probs[j] < probs[i]

C7_Witness ==
    /\ pc = "done" /\ ~HasNaN(probs)
    /\ predicted_class_idx = 1
    /\ probs[3] = probs[2] /\ probs[1] < probs[2]

\* C8: for a non-degenerate spectrogram and low <= high, every cell of the
\* tensor is in [low, high], some cell is low and some cell is high.
C8_NormalizedRange ==
    (pc = "forward" /\ ~Degenerate(mel_spec_db) /\ norm_range[1] <= norm_range[2]) =>
        /\ \A i \in DOMAIN mel_tensor :
              norm_range[1] <= mel_tensor[i] /\ mel_tensor[i] <= norm_range[2]
        /\ \E i \in DOMAIN mel_tensor : mel_tensor[i] = norm_range[1]
        /\ \E i \in DOMAIN mel_tensor : mel_tensor[i] = norm_range[2]

C8_Witness ==
    /\ pc = "forward" /\ ~Degenerate(mel_spec_db)
    /\ norm_range = <<-Scale, Scale>>
    /\ \E i \in DOMAIN mel_tensor :
          norm_range[1] < mel_tensor[i] /\ mel_tensor[i] < norm_range[2]

\* C9: the result carries one probability per class name, each in [0, 1],
\* summing to 1 within 1e-4, together with the label.
C9_ProbabilityLaw ==
    pc = "done" =>
        /\ DOMAIN probabilities = {class_names[i] : i \in DOMAIN class_names}
        /\ \A c \in DOMAIN probabilities :
              /\ probabilities[c] # NaN
              /\ 0 <= probabilities[c] /\ probabilities[c] <= ProbScale
        /\ Abs(SeqSum(probs) - ProbScale) <= ProbScale \div 10000
        /\ predicted_class_name \in DOMAIN probabilities

\* C10: an extracted segment is non-empty and contains the first active
\* sample: start <= first < end.
C10_SegmentHoldsFirstActive ==
    Extracted =>
        LET first == FirstActive(y_denoised) IN
        /\ cough # <<>>
        /\ start_idx <= first /\ first < end_idx
        /\ Active(cough[first - start_idx + 1])

C10_Witness ==
    /\ Extracted
    /\ start_idx > 0
    /\ FirstActive(y_denoised) = Len(y_denoised) - 1
    /\ end_idx = Len(y_denoised)

====
